---- MODULE Spec2Model ----
(***************************************************************************)
(* A model of the plan / execute / reflect core of YaoScope (planscope).   *)
(*                                                                         *)
(*   SpecParse    PlanParser.parse applied to bounded plans                *)
(*   SpecExec     PlanScope.execute_plan driving PlanExecutor.execute      *)
(*   SpecExecRefs the same, over plans whose tool_input holds references   *)
(*   SpecResolve  VariableResolver.resolve applied to bounded references   *)
(*   SpecStore    the writers of persistent/plans/<flow_id>.json           *)
(*   SpecSession  one /agent/execute request and its progress stream       *)
(*   SpecSessionLive  the same, with the event loop's fairness             *)
(*   SpecExecCancel   SpecExec with the request's task cancelled           *)
(*   SpecExecResults  SpecExec over tools that return values of any shape  *)
(*   SpecContext  the Curator's writes of an ACE context file, the        *)
(*                feedback on its entries and their retrieval              *)
(*   SpecReuse    PlanScope.generate_plan: reuse, flow_id, the tool pool   *)
(*   SpecNormalize    normalize_task_description applied twice             *)
(*   SpecConcurrent   two execute_plan calls sharing the ACEGenerator      *)
(*   SpecCache    LLMAnalyzer's caches and embedding_lock in two threads   *)
(*                                                                         *)
(* Every specification shares the variables below; a specification leaves  *)
(* the variables of the other parts at their idle values.                  *)
(***************************************************************************)
EXTENDS Integers, Sequences, FiniteSets, TLC

VARIABLES
    p_plan,            \* SpecParse: the plan_json["steps"] handed to parse
    p_result,          \* SpecParse: what parse returned or raised
    p_again,           \* SpecParse: what a second parse of the plan returned
    plan,              \* SpecExec: plan_json["steps"]
    has_session,       \* SpecExec: plan_json carries a session_id
    pc,                \* SpecExec: position of execute_plan
    execution_order,   \* SpecExec: parse_result["execution_order"]
    next_index,        \* SpecExec: position of the for loop in execution_order
    context,           \* SpecExec: context["steps"], step_id -> result
    executed_steps,    \* SpecExec: the executor's executed_steps list
    events,            \* SpecExec: what the executor published to the session
    invoked,           \* SpecExec: the step_ids whose tool function was called
    current_trace,     \* SpecExec: ACEGenerator.current_trace
    saved_traces,      \* SpecExec: traces written by finalize_trace
    task_success,      \* SpecExec: the task record's success field
    raised,            \* SpecExec: the exception leaving the executor
    reflection_log,    \* SpecExec: what _trigger_ace_reflection's except clause logged
    cancel_at,         \* SpecExecCancel: loop position when the request was cancelled, or 0
    tool_results,      \* SpecExec: the values the registered tools may return
    r_context,         \* SpecResolve: context["steps"] of the resolver
    r_text,            \* SpecResolve: the string handed to resolve
    r_result,          \* SpecResolve: what resolve returned or raised
    files,             \* SpecStore: flow_id -> the plan file persistent/plans/<flow_id>.json
    store_error,       \* SpecStore: what the last writer raised
    may_stall,         \* SpecSession: a phase of the request may last 60 s
    session_queue,     \* SpecSession: ProgressManager._sessions[session_id]
    request_pc,        \* SpecSession: position of execute_agent
    outcome,           \* SpecSession: how execute_agent returned
    steps_published,   \* SpecSession: step events the executor has published
    sse_pc,            \* SpecSession: position of agent_progress's generator
    stream,            \* SpecSession: the objects the generator has yielded
    published,         \* SpecSession: history of the kinds handed to publish
    backlog,           \* SpecSession: history, items queued when the subscriber attached
    ctx_entries,       \* SpecContext: the entries of one context file, by position
    ctx_error,         \* SpecContext: what the last call on the context raised
    ctx_clock,         \* SpecContext: the time, counted in calls of the Curator
    ctx_retrieved,     \* SpecContext: what _retrieve_relevant_context last returned
    now,               \* SpecReuse: int(time.time())
    tasks,             \* SpecReuse: flow_id -> the task record task_<flow_id>.json
    generated,         \* SpecReuse: what the last generate_plan returned
    tool_pool,         \* SpecReuse: PlanScope.tool_pool, the names in it
    tool_registry,     \* SpecReuse: the names the tool registry holds
    n_text,            \* SpecNormalize: a task description, its characters
    n_results,         \* SpecNormalize: the results of normalising it in turn
    t_pc,              \* SpecConcurrent: per execution, where execute_plan is
    t_next,            \* SpecConcurrent: per execution, the step it runs next
    t_current,         \* SpecConcurrent: ACEGenerator.current_trace, shared
    t_saved,           \* SpecConcurrent: the traces finalize_trace has saved
    k_pc,              \* SpecCache: per thread, where analyze_with_cache is
    k_key,             \* SpecCache: per thread, the cache key of its prompt
    embedding_lock,    \* SpecCache: the thread holding embedding_lock, or 0
    memory_cache,      \* SpecCache: the keys of LLMAnalyzer.memory_cache
    embedding_cache,   \* SpecCache: the keys of LLMAnalyzer.embedding_cache
    k_access           \* SpecCache: the last access to one of the caches

parseVars == <<p_plan, p_result, p_again>>
execVars == <<plan, has_session, pc, execution_order, next_index, context,
              executed_steps, events, invoked, current_trace, saved_traces,
              task_success, raised, reflection_log, cancel_at,
              tool_results>>
resolveVars == <<r_context, r_text, r_result>>
storeVars == <<files, store_error>>
sessionVars == <<may_stall, session_queue, request_pc, outcome,
                 steps_published, sse_pc, stream, published, backlog>>
contextVars == <<ctx_entries, ctx_error, ctx_clock, ctx_retrieved>>
reuseVars == <<now, tasks, generated, tool_pool, tool_registry>>
normalizeVars == <<n_text, n_results>>
concurrentVars == <<t_pc, t_next, t_current, t_saved>>
cacheVars == <<k_pc, k_key, embedding_lock, memory_cache, embedding_cache,
               k_access>>
vars ==
    <<parseVars, execVars, resolveVars, storeVars, sessionVars,
      contextVars, reuseVars, normalizeVars, concurrentVars, cacheVars>>

\* the variables a specification leaves alone
notParse ==
    <<execVars, resolveVars, storeVars, sessionVars, contextVars,
      reuseVars, normalizeVars, concurrentVars, cacheVars>>
notExec ==
    <<parseVars, resolveVars, storeVars, sessionVars, contextVars,
      reuseVars, normalizeVars, concurrentVars, cacheVars>>
notResolve ==
    <<parseVars, execVars, storeVars, sessionVars, contextVars,
      reuseVars, normalizeVars, concurrentVars, cacheVars>>
notStore ==
    <<parseVars, execVars, resolveVars, sessionVars, contextVars,
      reuseVars, normalizeVars, concurrentVars, cacheVars>>
notSession ==
    <<parseVars, execVars, resolveVars, storeVars, contextVars,
      reuseVars, normalizeVars, concurrentVars, cacheVars>>
notContext ==
    <<parseVars, execVars, resolveVars, storeVars, sessionVars,
      reuseVars, normalizeVars, concurrentVars, cacheVars>>
notReuse ==
    <<parseVars, execVars, resolveVars, storeVars, sessionVars,
      contextVars, normalizeVars, concurrentVars, cacheVars>>
notNormalize ==
    <<parseVars, execVars, resolveVars, storeVars, sessionVars,
      contextVars, reuseVars, concurrentVars, cacheVars>>
notConcurrent ==
    <<parseVars, execVars, resolveVars, storeVars, sessionVars,
      contextVars, reuseVars, normalizeVars, cacheVars>>
notCache ==
    <<parseVars, execVars, resolveVars, storeVars, sessionVars,
      contextVars, reuseVars, normalizeVars, concurrentVars>>

None == [kind |-> "None"]

(***************************************************************************)
(* Bounds of the model.                                                    *)
(***************************************************************************)
MaxStepId == 3
MaxSteps == 3
MaxDeps == 2
ExecMaxStepId == 2
ExecMaxSteps == 2
RefMaxStep == 2
RefMaxIndex == 3
StoreMaxStepId == 2
StoreMaxSteps == 2
MaxFlows == 2
MaxEntries == 2
MaxFeedback == 2
MaxCuratorCalls == 3
MaxTextLen == 7
ConcurrentSteps == 2
MaxTime == 2
SessionMaxSteps == 2

(***************************************************************************)
(* Sequences helpers.                                                      *)
(***************************************************************************)
SeqsUpTo(S, n) == UNION {[1..k -> S] : k \in 0..n}

Range(s) == {s[i] : i \in DOMAIN s}

InjectiveSeqs(S, n) ==
    {s \in UNION {[1..k -> S] : k \in 1..n} :
        \A i, j \in DOMAIN s : i # j => s[i] # s[j]}

\* list.index(x): the first position holding x
IndexOf(s, x) == CHOOSE i \in DOMAIN s : s[i] = x /\ \A j \in 1..(i - 1) : s[j] # x

(***************************************************************************)
(* Plans: plan_json["steps"] is a list of steps; a step carries step_id,   *)
(* dependencies, tool and tool_input.                                      *)
(***************************************************************************)
PlansOver(ids, maxSteps, depLists, toolNames, inputs) ==
    UNION {
        {[i \in 1..Len(idseq) |->
            [step_id |-> idseq[i], dependencies |-> d[i],
             tool |-> t[i], tool_input |-> inp[i]]] :
            d \in [1..Len(idseq) -> depLists],
            t \in [1..Len(idseq) -> toolNames],
            inp \in [1..Len(idseq) -> inputs]} :
        idseq \in InjectiveSeqs(ids, maxSteps)}

StepIdsOf(steps) == {steps[i].step_id : i \in DOMAIN steps}

\* PlanParser._build_step_map: step_id -> step (a later duplicate overwrites)
_build_step_map(steps) ==
    [n \in StepIdsOf(steps) |->
        steps[CHOOSE i \in DOMAIN steps :
                 steps[i].step_id = n
                 /\ \A j \in DOMAIN steps : steps[j].step_id = n => j <= i]]

\* PlanParser._build_dependency_graph: an insertion-ordered dict, kept as the
\* key order and the mapping
_build_dependency_graph(steps) ==
    [nodes |-> [i \in DOMAIN steps |-> steps[i].step_id],
     deps |-> [n \in StepIdsOf(steps) |-> _build_step_map(steps)[n].dependencies]]

\* dependency_graph.get(node, [])
GraphGet(g, node) == IF node \in DOMAIN g.deps THEN g.deps[node] ELSE <<>>

(***************************************************************************)
(* PlanParser._detect_circular_dependencies: DFS with visited, rec_stack   *)
(* and the current path.  A found cycle is kept in "cycle" (the code       *)
(* raises DependencyError naming it) and stops the search.                 *)
(***************************************************************************)
RECURSIVE has_cycle(_, _, _)
RECURSIVE VisitNeighbors(_, _, _, _)

\* the body of "for neighbor in dependency_graph.get(node, [])", from position i
VisitNeighbors(g, node, i, st) ==
    IF st.cycle # <<>> \/ i > Len(GraphGet(g, node)) THEN st
    ELSE LET neighbor == GraphGet(g, node)[i] IN
         IF neighbor \notin st.visited
         THEN VisitNeighbors(g, node, i + 1, has_cycle(g, neighbor, st))
         ELSE IF neighbor \in st.rec_stack
         THEN [st EXCEPT !.cycle =
                 SubSeq(st.path, IndexOf(st.path, neighbor), Len(st.path))
                 \o <<neighbor>>]
         ELSE VisitNeighbors(g, node, i + 1, st)

has_cycle(g, node, st) ==
    LET entered == [st EXCEPT !.visited = @ \cup {node},
                              !.rec_stack = @ \cup {node},
                              !.path = Append(@, node)]
        after == VisitNeighbors(g, node, 1, entered)
    IN IF after.cycle # <<>> THEN after
       ELSE [after EXCEPT !.path = SubSeq(@, 1, Len(@) - 1),
                          !.rec_stack = @ \ {node}]

RECURSIVE DetectFrom(_, _, _)
\* the outer "for node in dependency_graph: if node not in visited"
DetectFrom(g, i, st) ==
    IF st.cycle # <<>> \/ i > Len(g.nodes) THEN st
    ELSE IF g.nodes[i] \in st.visited THEN DetectFrom(g, i + 1, st)
    ELSE DetectFrom(g, i + 1, has_cycle(g, g.nodes[i], [st EXCEPT !.path = <<>>]))

\* a detection that visits nothing and so never raises
NoCycleDetection(g) == <<>>

\* the cycle the DependencyError names, <<>> when the call returns normally
_detect_circular_dependencies(g) ==
    DetectFrom(g, 1, [visited |-> {}, rec_stack |-> {}, path |-> <<>>,
                      cycle |-> <<>>]).cycle

(***************************************************************************)
(* PlanParser._topological_sort: Kahn's algorithm as the code runs it.     *)
(***************************************************************************)
\* in_degree[node] is incremented once for every entry of its dependency list
InitialInDegree(g) == [n \in DOMAIN g.deps |-> Len(g.deps[n])]

RECURSIVE RelaxOthers(_, _, _, _)
\* "for other_node in dependency_graph: if node in dependency_graph[other_node]"
RelaxOthers(g, node, i, st) ==
    IF i > Len(g.nodes) THEN st
    ELSE LET other_node == g.nodes[i] IN
         IF node \in Range(g.deps[other_node])
         THEN LET d == st.in_degree[other_node] - 1 IN
              RelaxOthers(g, node, i + 1,
                  [in_degree |-> [st.in_degree EXCEPT ![other_node] = d],
                   queue |-> IF d = 0 THEN Append(st.queue, other_node)
                             ELSE st.queue])
         ELSE RelaxOthers(g, node, i + 1, st)

RECURSIVE KahnLoop(_, _, _, _)
\* "while queue: node = queue.popleft(); result.append(node); ..."
KahnLoop(g, in_degree, queue, result) ==
    IF queue = <<>> THEN result
    ELSE LET node == Head(queue)
             st == RelaxOthers(g, node, 1,
                       [in_degree |-> in_degree, queue |-> Tail(queue)])
         IN KahnLoop(g, st.in_degree, st.queue, Append(result, node))

KahnResult(g) ==
    KahnLoop(g, InitialInDegree(g),
             SelectSeq(g.nodes, LAMBDA n : InitialInDegree(g)[n] = 0), <<>>)

\* [ok, order]: not ok is DependencyError("存在循环依赖，无法生成执行顺序")
_topological_sort(g) ==
    LET result == KahnResult(g) IN
    IF Len(result) # Len(g.nodes)
    THEN [ok |-> FALSE, order |-> <<>>]
    ELSE [ok |-> TRUE, order |-> result]

(***************************************************************************)
(* PlanParser.parse: every exception leaves as PlanParsingError, chained   *)
(* from its cause.                                                         *)
(***************************************************************************)
ParseError(cause, cycle) ==
    [ok |-> FALSE, error |-> "PlanParsingError", cause |-> cause,
     cycle |-> cycle, execution_order |-> <<>>]

parse(steps) ==
    LET g == _build_dependency_graph(steps)
        cycle == _detect_circular_dependencies(g)
        sorted == _topological_sort(g)
    IN IF cycle # <<>> THEN ParseError("DependencyError", cycle)
       ELSE IF ~sorted.ok THEN ParseError("DependencyError", <<>>)
       ELSE [ok |-> TRUE, error |-> "", cause |-> "", cycle |-> <<>>,
             execution_order |-> sorted.order]

(***************************************************************************)
(* Graph facts the claims are stated with, defined on the plan itself and  *)
(* not through the parser.                                                 *)
(***************************************************************************)
DependsOn(steps, a, b) ==
    \E i \in DOMAIN steps :
        steps[i].step_id = a /\ b \in Range(steps[i].dependencies)

RECURSIVE ReachableIn(_, _, _)
\* the nodes reachable from the set "from" along at most k dependency edges
ReachableIn(steps, from, k) ==
    IF k = 0 THEN from
    ELSE ReachableIn(steps,
             from \cup {b \in StepIdsOf(steps) :
                           \E a \in from : DependsOn(steps, a, b)},
             k - 1)

DirectDeps(steps, a) == {b \in StepIdsOf(steps) : DependsOn(steps, a, b)}

HasCycleGraph(steps) ==
    \E n \in StepIdsOf(steps) :
        n \in ReachableIn(steps, DirectDeps(steps, n), Len(steps))

\* every dependency names an existing step other than the step itself
DepsWellFormed(steps) ==
    \A i \in DOMAIN steps :
        \A d \in Range(steps[i].dependencies) :
            d \in StepIdsOf(steps) /\ d # steps[i].step_id

PositionIn(order, n) == CHOOSE i \in DOMAIN order : order[i] = n

IsLinearExtension(steps, order) ==
    /\ Len(order) = Len(steps)
    /\ Range(order) = StepIdsOf(steps)
    /\ \A i, j \in DOMAIN order : i # j => order[i] # order[j]
    /\ \A a, b \in StepIdsOf(steps) :
          DependsOn(steps, a, b) => PositionIn(order, b) < PositionIn(order, a)

(***************************************************************************)
(* SpecParse: parse applied to every bounded plan.                         *)
(***************************************************************************)
ParseStepIds == 1..MaxStepId

ParseIdle == p_plan = <<>> /\ p_result = None /\ p_again = None

ParseInit ==
    /\ p_plan \in PlansOver(ParseStepIds, MaxSteps,
                            SeqsUpTo(ParseStepIds, MaxDeps), {"a"}, {<<>>})
    /\ p_result = None
    /\ p_again = None

Parse ==
    /\ p_result = None
    /\ p_result' = parse(p_plan)
    /\ UNCHANGED <<p_plan, p_again>>

\* a second call on the same plan object
ParseAgain ==
    /\ p_result # None
    /\ p_again = None
    /\ p_again' = parse(p_plan)
    /\ UNCHANGED <<p_plan, p_result>>

(***************************************************************************)
(* Values: the JSON-like values of tool_input and of step results, tagged  *)
(* by their Python type.  A string that may hold references is a "text":   *)
(* a sequence of tokens, each a literal chunk or one reference             *)
(* {{steps.N.path}} (kind "dbl") or {steps.N.path} (kind "sgl").  A path   *)
(* is field_path.split('.'): each segment a field name, with an index      *)
(* when it is written name[i] (name may be empty: "[i]").                  *)
(***************************************************************************)
Str(s) == [t |-> "str", v |-> s]
Int_(n) == [t |-> "int", v |-> n]
List(seq) == [t |-> "list", v |-> seq]
Dict(f) == [t |-> "dict", v |-> f]
Text(tokens) == [t |-> "text", v |-> tokens]
NoValue == [t |-> "none", v |-> 0]

Field(name) == [name |-> name, indexed |-> FALSE, index |-> 0]
Indexed(name, i) == [name |-> name, indexed |-> TRUE, index |-> i]

Lit(s) == [kind |-> "lit", lit |-> s, step |-> 0, path |-> <<>>]
Ref(kind, step, path) == [kind |-> kind, lit |-> "", step |-> step, path |-> path]

RECURSIVE py_repr(_)
RECURSIVE JoinRepr(_, _)
RECURSIVE JoinItems(_, _)

\* ", ".join(repr(x) for x in seq[i:])
JoinRepr(seq, i) ==
    IF i > Len(seq) THEN ""
    ELSE py_repr(seq[i]) \o (IF i < Len(seq) THEN ", " ELSE "") \o JoinRepr(seq, i + 1)

\* the items of a dict, one key after the other
JoinItems(f, keys) ==
    IF keys = {} THEN ""
    ELSE LET k == CHOOSE x \in keys : TRUE IN
         "'" \o k \o "': " \o py_repr(f[k])
         \o (IF keys = {k} THEN "" ELSE ", ") \o JoinItems(f, keys \ {k})

\* repr(value)
py_repr(val) ==
    CASE val.t = "str" -> "'" \o val.v \o "'"
      [] val.t = "int" -> ToString(val.v)
      [] val.t = "list" -> "[" \o JoinRepr(val.v, 1) \o "]"
      [] val.t = "dict" -> "{" \o JoinItems(val.v, DOMAIN val.v) \o "}"
      [] OTHER -> "None"

\* str(value): a string is itself, anything else is its repr
py_str(val) == IF val.t = "str" THEN val.v ELSE py_repr(val)

(***************************************************************************)
(* VariableResolver._extract_value                                         *)
(***************************************************************************)
Extracted(val) == [ok |-> TRUE, error |-> "", value |-> val]
ResolveFailure(err) == [ok |-> FALSE, error |-> err, value |-> NoValue]

\* current[index] on a Python list: a negative index counts from the end
PyIndex(seq, index) ==
    IF index >= 0 THEN seq[index + 1] ELSE seq[Len(seq) + index + 1]

RECURSIVE WalkPath(_, _, _)
\* "for field in fields", from position i, with the value reached so far
WalkPath(current, path, i) ==
    IF i > Len(path) THEN Extracted(current)
    ELSE LET field == path[i] IN
      IF field.indexed
      THEN LET named ==
                  IF field.name # ""
                  THEN IF current.t # "dict" \/ field.name \notin DOMAIN current.v
                       THEN ResolveFailure("VariableResolutionError")
                       ELSE Extracted(current.v[field.name])
                  ELSE Extracted(current)
           IN IF ~named.ok THEN named
              ELSE IF named.value.t # "list"
              THEN ResolveFailure("VariableResolutionError")
              ELSE IF field.index >= Len(named.value.v)
              THEN ResolveFailure("VariableResolutionError")
              ELSE IF field.index < -Len(named.value.v)
              THEN ResolveFailure("IndexError")
              ELSE WalkPath(PyIndex(named.value.v, field.index), path, i + 1)
      ELSE IF current.t = "dict"
           THEN IF field.name \notin DOMAIN current.v
                THEN ResolveFailure("VariableResolutionError")
                ELSE WalkPath(current.v[field.name], path, i + 1)
           ELSE ResolveFailure("VariableResolutionError")

\* ctx is self.context["steps"]: step_id -> result
_extract_value(ctx, step_id, field_path) ==
    IF step_id \notin DOMAIN ctx
    THEN ResolveFailure("VariableResolutionError")
    ELSE WalkPath(ctx[step_id], field_path, 1)

(***************************************************************************)
(* VariableResolver._resolve_string                                        *)
(***************************************************************************)
\* DOUBLE_BRACE_PATTERN.finditer(text): the double-brace references
DOUBLE_BRACE_PATTERN(tokens) == SelectSeq(tokens, LAMBDA tok : tok.kind = "dbl")

\* SINGLE_BRACE_PATTERN.finditer(text): \{steps\.(\d+)\.([^}]+)\} matches every
\* single-brace reference and also the inner {steps.N.path} of every
\* double-brace reference
SINGLE_BRACE_PATTERN(tokens) ==
    [i \in 1..Len(SelectSeq(tokens, LAMBDA tok : tok.kind \in {"dbl", "sgl"})) |->
        [SelectSeq(tokens, LAMBDA tok : tok.kind \in {"dbl", "sgl"})[i]
            EXCEPT !.kind = "sgl"]]

\* result.replace(placeholder, str(value)) on the text built so far
Replace(tokens, placeholder, text) ==
    [i \in DOMAIN tokens |->
        IF tokens[i].kind = "lit" \/ tokens[i].step # placeholder.step
           \/ tokens[i].path # placeholder.path
        THEN tokens[i]
        ELSE IF tokens[i].kind = placeholder.kind THEN Lit(text)
        ELSE IF tokens[i].kind = "dbl" THEN Lit("{" \o text \o "}")
        ELSE tokens[i]]

RECURSIVE Flatten(_, _)
\* the Python string a token sequence spells
Flatten(tokens, i) ==
    IF i > Len(tokens) THEN ""
    ELSE (IF tokens[i].kind = "lit" THEN tokens[i].lit ELSE "{ref}")
         \o Flatten(tokens, i + 1)

RECURSIVE ReplaceAll(_, _, _, _)
\* "for match in matches", from position i
ReplaceAll(ctx, matches, i, result) ==
    IF i > Len(matches) THEN Extracted(Str(Flatten(result, 1)))
    ELSE LET got == _extract_value(ctx, matches[i].step, matches[i].path) IN
         IF ~got.ok THEN got
         ELSE ReplaceAll(ctx, matches, i + 1,
                         Replace(result, matches[i], py_str(got.value)))

_resolve_string(ctx, tokens) ==
    LET matches == DOUBLE_BRACE_PATTERN(tokens) \o SINGLE_BRACE_PATTERN(tokens) IN
    IF matches = <<>> THEN Extracted(Str(Flatten(tokens, 1)))
    ELSE IF Len(matches) = 1 /\ Len(tokens) = 1 /\ matches[1] = tokens[1]
    THEN _extract_value(ctx, matches[1].step, matches[1].path)
    ELSE ReplaceAll(ctx, matches, 1, tokens)

(***************************************************************************)
(* VariableResolver.resolve, _resolve_dict and _resolve_list               *)
(***************************************************************************)
RECURSIVE resolve(_, _)

\* the first failure among the resolved members, if any
FirstFailure(results) ==
    IF \E r \in results : ~r.ok
    THEN CHOOSE r \in results : ~r.ok
    ELSE Extracted(NoValue)

resolve(ctx, val) ==
    CASE val.t = "text" -> _resolve_string(ctx, val.v)
      [] val.t = "dict" ->
            LET parts == [k \in DOMAIN val.v |-> resolve(ctx, val.v[k])] IN
            IF \E k \in DOMAIN parts : ~parts[k].ok
            THEN FirstFailure({parts[k] : k \in DOMAIN parts})
            ELSE Extracted(Dict([k \in DOMAIN parts |-> parts[k].value]))
      [] val.t = "list" ->
            LET parts == [i \in DOMAIN val.v |-> resolve(ctx, val.v[i])] IN
            IF \E i \in DOMAIN parts : ~parts[i].ok
            THEN FirstFailure({parts[i] : i \in DOMAIN parts})
            ELSE Extracted(List([i \in DOMAIN parts |-> parts[i].value]))
      [] OTHER -> Extracted(val)

(***************************************************************************)
(* SpecExec: PlanScope.execute_plan and PlanExecutor.execute.              *)
(***************************************************************************)
ExecStepIds == 1..ExecMaxStepId

\* the tools dict handed to execute_plan, and the tool names a plan may use
ProvidedTools == {"a"}
ToolNames == {"a", "b"}

\* what a tool function returns
ToolResult == Dict([content |-> Str("out")])
\* a mapping without "content", and a value that is no mapping
ResultWithoutContent == Dict([text |-> Str("out")])
NonMappingResult == Str("out")
ToolResults == {ToolResult, ResultWithoutContent, NonMappingResult}
\* BaseTool.TOOL_TYPE of the registered tools
TOOL_TYPE(tool) == "llm"

\* tool_input: {"arg": "x"} or {"arg": "{{steps.k.content}}"}
LiteralInput == Dict([arg |-> Text(<<Lit("x")>>)])
RefInput(k) == Dict([arg |-> Text(<<Ref("dbl", k, <<Field("content")>>)>>)])
ExecInputs == {LiteralInput} \cup {RefInput(k) : k \in 0..ExecMaxStepId}

\* the step ids a tool_input refers to
RefsOf(input) ==
    UNION {{input.v[k].v[i].step :
               i \in {j \in DOMAIN input.v[k].v : input.v[k].v[j].kind # "lit"}} :
           k \in DOMAIN input.v}

\* "dependencies": [] or "dependencies": [d]
SingleDeps(ids) == {<<>>} \cup {<<d>> : d \in ids}

\* the plans of the given tools and tool_inputs, over every dependency graph
\* whose steps have at most one dependency
ExecPlans(toolNames, inputs) ==
    PlansOver(ExecStepIds, ExecMaxSteps, SingleDeps(ExecStepIds),
              toolNames, inputs)

NoFailure == [step_id |-> 0, error_type |-> "None"]
NoTrace == [active |-> FALSE, success |-> FALSE, executed_steps |-> <<>>,
            step_details |-> <<>>, failure_info |-> NoFailure]
NoError == [kind |-> "None", cause |-> "", step_id |-> 0,
            executed_steps |-> <<>>, missing_tools |-> {}, cycle |-> <<>>,
            reflection_error |-> ""]

\* a validation that finds every tool
NoToolValidation(steps, tools) == [valid |-> TRUE, missing_tools |-> {}]

\* PlanExecutor.validate_tools
validate_tools(steps, tools) ==
    LET required_tools == {steps[i].tool : i \in DOMAIN steps} IN
    [valid |-> required_tools \ tools = {},
     missing_tools |-> required_tools \ tools]

\* ACEGenerator.start_trace: a new ExecutionTrace replaces current_trace
start_trace == [NoTrace EXCEPT !.active = TRUE]

\* ExecutionTrace.add_step_detail through ACEGenerator.record_step_execution
record_step_execution(trace, step_id, error) ==
    IF ~trace.active THEN trace
    ELSE [trace EXCEPT !.step_details =
             Append(@, [step_id |-> step_id, error |-> error])]

\* a record_failure that leaves the trace as it was
FailureNotRecorded(trace, step_id, error_type, done) == trace

\* ExecutionTrace.set_failure through ACEGenerator.record_failure
set_failure(trace, step_id, error_type, done) ==
    IF ~trace.active THEN trace
    ELSE [trace EXCEPT !.success = FALSE, !.executed_steps = done,
                       !.failure_info = [step_id |-> step_id,
                                         error_type |-> error_type]]

\* ExecutionTrace.set_success through ACEGenerator.record_success
set_success(trace, done) ==
    IF ~trace.active THEN trace
    ELSE [trace EXCEPT !.success = TRUE, !.executed_steps = done]

\* ProgressManager.publish_step_start / _done / _error from the executor: only
\* when the plan carries a session_id
publish(queue, session, kind, step_id) ==
    IF session THEN Append(queue, [kind |-> kind, step_id |-> step_id])
    ELSE queue

ExecIdle ==
    /\ plan = <<>>
    /\ has_session = FALSE
    /\ pc = "off"
    /\ execution_order = <<>>
    /\ next_index = 0
    /\ context = <<>>
    /\ executed_steps = <<>>
    /\ events = <<>>
    /\ invoked = <<>>
    /\ current_trace = NoTrace
    /\ saved_traces = <<>>
    /\ task_success = "unknown"
    /\ raised = NoError
    /\ reflection_log = ""
    /\ cancel_at = 0
    /\ tool_results = {}

ExecInit(plans, results) ==
    /\ plan \in plans
    /\ has_session \in BOOLEAN
    /\ pc = "idle"
    /\ execution_order = <<>>
    /\ next_index = 0
    /\ context = <<>>
    /\ executed_steps = <<>>
    /\ events = <<>>
    /\ invoked = <<>>
    /\ current_trace = NoTrace
    /\ saved_traces = <<>>
    /\ task_success = "unknown"
    /\ raised = NoError
    /\ reflection_log = ""
    /\ cancel_at = 0
    /\ tool_results = results

\* PlanScope._trigger_ace_reflection, called from execute_plan's except clause
\* with the trace as the executor left it.  Without a current trace it returns
\* at once; otherwise finalize_trace saves the trace and clears current_trace,
\* and the task record is marked failed only when the Reflector and the
\* Curator (model calls) raise nothing; what they raise is logged by the
\* except clause and goes no further.
_trigger_ace_reflection(trace, reflect_ok) ==
    IF ~trace.active
    THEN /\ current_trace' = trace
         /\ UNCHANGED <<saved_traces, task_success, reflection_log>>
    ELSE /\ current_trace' = NoTrace
         /\ saved_traces' = Append(saved_traces, trace)
         /\ task_success' = IF reflect_ok THEN "false" ELSE task_success
         /\ reflection_log' = IF reflect_ok THEN reflection_log
                              ELSE "ReflectionError"

\* execute_plan up to the executor's for loop: validate_tools, start_trace,
\* parse, the empty context
ExecutePlan ==
    /\ pc = "idle"
    /\ LET validation == validate_tools(plan, ProvidedTools)
           parse_result == parse(plan)
       IN IF ~validation.valid
          THEN /\ pc' = "raised"
               /\ raised' = [NoError EXCEPT !.kind = "PlanScopeError",
                                  !.missing_tools = validation.missing_tools]
               /\ _trigger_ace_reflection(current_trace, FALSE)
               /\ UNCHANGED <<execution_order, next_index>>
          ELSE IF ~parse_result.ok
          THEN /\ pc' = "raised"
               /\ raised' = [NoError EXCEPT !.kind = "PlanExecutionError",
                                  !.cause = parse_result.error,
                                  !.cycle = parse_result.cycle]
               /\ \E reflect_ok \in BOOLEAN :
                      _trigger_ace_reflection(start_trace, reflect_ok)
               /\ UNCHANGED <<execution_order, next_index>>
          ELSE /\ pc' = "running"
               /\ execution_order' = parse_result.execution_order
               /\ next_index' = 1
               /\ current_trace' = start_trace
               /\ UNCHANGED <<raised, saved_traces, task_success, reflection_log>>
    /\ UNCHANGED <<plan, has_session, context, executed_steps, events, invoked,
                   cancel_at, tool_results>>

\* one iteration of "for step_id in execution_order": step_start, _execute_step
\* (registry check, resolve, the tool call), then step_done, or step_error,
\* record_failure and the raise, which execute_plan answers with the reflection
ExecuteStep ==
    /\ pc = "running"
    /\ next_index <= Len(execution_order)
    /\ LET step_id == execution_order[next_index]
           step == _build_step_map(plan)[step_id]
           started == publish(events, has_session, "step_start", step_id)
           resolved == resolve(context, step.tool_input)
       IN \E tool_raises \in BOOLEAN, reflect_ok \in BOOLEAN,
             result \in tool_results :
          LET failure ==
                 IF step.tool \notin ProvidedTools THEN "ToolNotFoundError"
                 ELSE IF ~resolved.ok THEN "VariableResolutionError"
                 ELSE IF tool_raises THEN "PlanExecutionError"
                 ELSE ""
              called == failure \in {"", "PlanExecutionError"}
              traced == IF called
                        THEN record_step_execution(current_trace, step_id,
                                                   failure # "")
                        ELSE current_trace
          IN /\ invoked' = IF called THEN Append(invoked, step_id) ELSE invoked
             /\ IF failure = ""
                THEN /\ context' = [n \in DOMAIN context \cup {step_id} |->
                                       IF n = step_id THEN result
                                       ELSE context[n]]
                     /\ executed_steps' = Append(executed_steps, step_id)
                     /\ events' = publish(started, has_session, "step_done", step_id)
                     /\ current_trace' = traced
                     /\ next_index' = next_index + 1
                     /\ UNCHANGED <<pc, raised, saved_traces, task_success,
                                    reflection_log>>
                ELSE /\ events' = publish(started, has_session, "step_error", step_id)
                     /\ raised' = [NoError EXCEPT !.kind = "PlanExecutionError",
                                        !.cause = failure,
                                        !.step_id = step_id,
                                        !.executed_steps = executed_steps]
                     /\ _trigger_ace_reflection(
                            set_failure(traced, step_id, failure, executed_steps),
                            reflect_ok)
                     /\ pc' = "raised"
                     /\ UNCHANGED <<context, executed_steps, next_index>>
    /\ UNCHANGED <<plan, has_session, execution_order, cancel_at, tool_results>>

\* after the loop: record_success, the result is returned, and execute_plan
\* marks the task record successful
ExecuteFinish ==
    /\ pc = "running"
    /\ next_index > Len(execution_order)
    /\ current_trace' = set_success(current_trace, executed_steps)
    /\ task_success' = "true"
    /\ pc' = "returned"
    /\ UNCHANGED <<plan, has_session, execution_order, next_index, context,
                   executed_steps, events, invoked, saved_traces, raised,
                   reflection_log, cancel_at, tool_results>>

\* execute_agent's task is cancelled while it awaits run_in_executor: the
\* await raises CancelledError in the coroutine; the worker thread that runs
\* execute_plan holds no reference to the task and reads no cancellation
\* flag, so no variable of the executor changes
CancelRequest ==
    /\ pc = "running"
    /\ cancel_at = 0
    /\ next_index <= Len(execution_order)
    /\ cancel_at' = next_index
    /\ UNCHANGED <<plan, has_session, pc, execution_order, next_index, context,
                   executed_steps, events, invoked, current_trace, saved_traces,
                   task_success, raised, reflection_log, tool_results>>

(***************************************************************************)
(* SpecResolve: VariableResolver(context).resolve applied to one string.   *)
(***************************************************************************)
\* a step result with a string, an integer, a list and a nested dict
StepResult ==
    Dict([content |-> Str("out"), n |-> Int_(5),
          items |-> List(<<Str("a"), Str("b")>>),
          meta |-> Dict([k |-> Str("v")])])

\* the field paths of the references drawn
RefPaths ==
    {<<Field(f)>> : f \in {"content", "n", "items", "meta", "missing"}}
    \cup {<<Field("meta"), Field("k")>>, <<Field("content"), Field("k")>>,
          <<Indexed("n", 0)>>}
    \cup {<<Indexed("items", i)>> : i \in (0 - RefMaxIndex)..RefMaxIndex}

\* a reference alone, or after some literal text
RefTexts ==
    {<<Ref(kind, step, path)>> :
        kind \in {"dbl", "sgl"}, step \in 0..RefMaxStep, path \in RefPaths}
    \cup {<<Lit("see "), Ref(kind, step, path)>> :
        kind \in {"dbl", "sgl"}, step \in 0..RefMaxStep, path \in RefPaths}

ResolveIdle == r_context = <<>> /\ r_text = <<>> /\ r_result = None

ResolveInit ==
    /\ r_context \in {[n \in 1..k |-> StepResult] : k \in 0..RefMaxStep}
    /\ r_text \in RefTexts
    /\ r_result = None

Resolve ==
    /\ r_result = None
    /\ r_result' = resolve(r_context, Text(r_text))
    /\ UNCHANGED <<r_context, r_text>>

(***************************************************************************)
(* SpecStore: the writers of the plan files.  What the model returns for a *)
(* plan is any steps list over the bounded ids.  Steps carry no            *)
(* description here: whether two descriptions agree is drawn.              *)
(***************************************************************************)
Flows == 1..MaxFlows
StoreStepIds == 1..StoreMaxStepId

NoFile == [exists |-> FALSE, steps |-> <<>>]
File(steps) == [exists |-> TRUE, steps |-> steps]

\* the steps lists a model call may return: ids may repeat or leave gaps
ModelPlans ==
    UNION {
        {[i \in 1..Len(idseq) |->
            [step_id |-> idseq[i], dependencies |-> d[i],
             tool |-> t[i], tool_input |-> LiteralInput]] :
            d \in [1..Len(idseq) -> SingleDeps(StoreStepIds)],
            t \in [1..Len(idseq) -> ProvidedTools]} :
        idseq \in SeqsUpTo(StoreStepIds, StoreMaxSteps)}

\* PlanJSONValidator.validate: _validate_top_level (steps not empty) and
\* _validate_steps (every step_id an integer seen only once)
validate(steps) ==
    /\ Len(steps) # 0
    /\ \A i, j \in DOMAIN steps : i # j => steps[i].step_id # steps[j].step_id

\* PlanJSONValidator.validate_dependencies: every dependency names a step of
\* the plan other than the step itself
validate_dependencies(steps) ==
    \A i \in DOMAIN steps :
        \A dep_id \in Range(steps[i].dependencies) :
            /\ dep_id \in StepIdsOf(steps)
            /\ dep_id # steps[i].step_id

\* PlanGenerator._save_plan: writes <flow_id>.json, replacing what is there
_save_plan(flow_id, steps) == files' = [files EXCEPT ![flow_id] = File(steps)]

StoreIdle == files = <<>> /\ store_error = ""

StoreInit == files = [f \in Flows |-> NoFile] /\ store_error = ""

\* ACEPlanGenerator.generate without a reusable task: the model's plan is
\* validated and saved, or PlanGenerationError leaves and nothing is written
Generate ==
    \E plan_json \in ModelPlans, flow_id \in Flows :
        IF validate(plan_json) /\ validate_dependencies(plan_json)
        THEN /\ _save_plan(flow_id, plan_json)
             /\ store_error' = ""
        ELSE /\ store_error' = "PlanGenerationError"
             /\ UNCHANGED files

\* ACEPlanGenerator.generate with a reusable task: the stored plan is saved
\* again under a new flow_id
GenerateReused ==
    \E old_flow_id \in Flows, new_flow_id \in Flows :
        /\ files[old_flow_id].exists
        /\ _save_plan(new_flow_id, files[old_flow_id].steps)
        /\ store_error' = ""

\* reconstruct_plan_after_deletion's check of the model's answer: when it is
\* long enough to hold the deleted position, no step may repeat the deleted
\* step's tool and description
StillHoldsDeleted(reconstructed, deleted_step, deleted_step_id, same_description) ==
    /\ deleted_step_id <= Len(reconstructed)
    /\ \E i \in DOMAIN reconstructed :
          reconstructed[i].tool = deleted_step.tool /\ same_description

\* delete_step_and_reconstruct: load, pop the step at position step_id - 1,
\* ask the model for the rebuilt plan and save its answer
DeleteStepAndReconstruct ==
    \E flow_id \in Flows, step_id \in 0..StoreMaxSteps,
       reconstructed_plan \in ModelPlans, answer_flow_id \in Flows,
       same_description \in BOOLEAN :
        /\ files[flow_id].exists
        /\ IF step_id < 1 \/ step_id > Len(files[flow_id].steps)
           THEN /\ store_error' = "400"
                /\ UNCHANGED files
           ELSE IF StillHoldsDeleted(reconstructed_plan,
                                     files[flow_id].steps[step_id], step_id,
                                     same_description)
           THEN /\ store_error' = "ValueError"
                /\ UNCHANGED files
           ELSE /\ _save_plan(answer_flow_id, reconstructed_plan)
                /\ store_error' = ""

(***************************************************************************)
(* SpecSession: one POST /agent/execute request, the ProgressManager queue *)
(* of its session_id and one GET /agent/progress/{session_id} subscriber.  *)
(***************************************************************************)
\* _sessions without the session_id
NoSession == [exists |-> FALSE, items |-> <<>>]

\* the end signal close_session puts on the queue
EndSignal == "None"

\* ProgressManager.get_or_create_session
get_or_create_session(session) ==
    IF session.exists THEN session ELSE [exists |-> TRUE, items |-> <<>>]

\* a bus that drops what is published to an unregistered session
PublishIfRegistered(session, kind) ==
    IF session.exists
    THEN [session EXCEPT !.items = Append(@, kind)]
    ELSE session

\* ProgressManager.publish and publish_*: create the queue if needed, put_nowait
publish_status(session, kind) ==
    [exists |-> TRUE, items |-> Append(get_or_create_session(session).items, kind)]

\* ProgressManager.close_session: the end signal, only for a known session
close_session(session) ==
    IF session.exists
    THEN [session EXCEPT !.items = Append(@, EndSignal)]
    ELSE session

\* a bus whose remove_session leaves the queue registered
KeepSession(session) == session

\* ProgressManager.remove_session
remove_session(session) == NoSession

SessionIdle ==
    /\ may_stall = FALSE
    /\ session_queue = NoSession
    /\ request_pc = "off"
    /\ outcome = ""
    /\ steps_published = 0
    /\ sse_pc = "off"
    /\ stream = <<>>
    /\ published = <<>>
    /\ backlog = -1

SessionInit ==
    /\ may_stall \in BOOLEAN
    /\ session_queue = NoSession
    /\ request_pc = "start"
    /\ outcome = ""
    /\ steps_published = 0
    /\ sse_pc = "idle"
    /\ stream = <<>>
    /\ published = <<>>
    /\ backlog = -1

\* execute_agent up to the call of generate_plan
RequestStart ==
    /\ request_pc = "start"
    /\ session_queue' = publish_status(session_queue, "task_start")
    /\ request_pc' = "generating"
    /\ published' = Append(published, "task_start")
    /\ UNCHANGED <<may_stall, outcome, steps_published, sse_pc, stream, backlog>>

\* generate_plan raises: the inner except returns the error response
GenerationFails ==
    /\ request_pc = "generating"
    /\ request_pc' = "returned"
    /\ outcome' = "generation_failed"
    /\ UNCHANGED <<may_stall, session_queue, steps_published, sse_pc, stream,
                   published, backlog>>

\* an execute_agent that starts the execution without announcing the plan
GenerationSkipsPlanReady ==
    /\ request_pc = "generating"
    /\ session_queue' = publish_status(session_queue, "plan_execution")
    /\ request_pc' = "executing"
    /\ published' = Append(published, "plan_execution")
    /\ UNCHANGED <<may_stall, outcome, steps_published, sse_pc, stream, backlog>>

\* generate_plan returns: plan_ready, the session_id is put in the plan, the
\* tools dict is built, plan_execution is published and execute_plan starts
GenerationSucceeds ==
    /\ request_pc = "generating"
    /\ session_queue' = publish_status(publish_status(session_queue, "plan_ready"),
                                       "plan_execution")
    /\ request_pc' = "executing"
    /\ published' = published \o <<"plan_ready", "plan_execution">>
    /\ UNCHANGED <<may_stall, outcome, steps_published, sse_pc, stream, backlog>>

\* the executor publishes step_start and step_done in turn
ExecutorPublishes ==
    /\ request_pc = "executing"
    /\ steps_published < 2 * SessionMaxSteps
    /\ session_queue' =
          publish_status(session_queue,
              IF steps_published % 2 = 0 THEN "step_start" ELSE "step_done")
    /\ published' =
          Append(published,
              IF steps_published % 2 = 0 THEN "step_start" ELSE "step_done")
    /\ steps_published' = steps_published + 1
    /\ UNCHANGED <<may_stall, request_pc, outcome, sse_pc, stream, backlog>>

\* execute_plan raises, after step_error when a step was running:
\* close_session and the error response
ExecutionFails ==
    /\ request_pc = "executing"
    /\ session_queue' =
          close_session(IF steps_published % 2 = 1
                        THEN publish_status(session_queue, "step_error")
                        ELSE session_queue)
    /\ request_pc' = "returned"
    /\ outcome' = "execution_failed"
    /\ published' =
          IF steps_published % 2 = 1
          THEN Append(published, "step_error")
          ELSE published
    /\ UNCHANGED <<may_stall, steps_published, sse_pc, stream, backlog>>

\* execute_plan returns: close_session and the response
ExecutionSucceeds ==
    /\ request_pc = "executing"
    /\ steps_published % 2 = 0
    /\ session_queue' = close_session(session_queue)
    /\ request_pc' = "returned"
    /\ outcome' = "success"
    /\ UNCHANGED <<may_stall, steps_published, sse_pc, stream, published, backlog>>

\* agent_progress: the subscriber connects
Subscribe ==
    /\ sse_pc = "idle"
    /\ session_queue' = get_or_create_session(session_queue)
    /\ sse_pc' = "waiting"
    /\ backlog' = Len(session_queue.items)
    /\ UNCHANGED <<may_stall, request_pc, outcome, steps_published, stream,
                   published>>

\* event_generator: queue.get() returns an item; the end signal yields
\* {"done": true}, ends the loop and removes the session
Deliver ==
    /\ sse_pc = "waiting"
    /\ session_queue.items # <<>>
    /\ IF Head(session_queue.items) = EndSignal
       THEN /\ stream' = Append(stream, "done")
            /\ sse_pc' = "closed"
            /\ session_queue' = remove_session(session_queue)
       ELSE /\ stream' = Append(stream, Head(session_queue.items))
            /\ session_queue' = [session_queue EXCEPT !.items = Tail(@)]
            /\ UNCHANGED sse_pc
    /\ UNCHANGED <<may_stall, request_pc, outcome, steps_published, published,
                   backlog>>

\* event_generator: no item for 60 seconds; {"timeout": true} is yielded and
\* the session removed.  While the request runs the queue stays empty that
\* long only when a phase of the request may take that long.
WaitTimesOut ==
    /\ sse_pc = "waiting"
    /\ session_queue.items = <<>>
    /\ may_stall \/ request_pc = "returned"
    /\ stream' = Append(stream, "timeout")
    /\ sse_pc' = "closed"
    /\ session_queue' = remove_session(session_queue)
    /\ UNCHANGED <<may_stall, request_pc, outcome, steps_published, published,
                   backlog>>

(***************************************************************************)
(* SpecContext: the entries of one ACE context file and their writers.     *)
(***************************************************************************)
\* ContextEntry.calculate_score
calculate_score(entry) ==
    [entry EXCEPT !.score = entry.useful_count - entry.harmful_count]

\* ContextEntry.update_score
update_score(entry, is_useful) ==
    calculate_score(IF is_useful
                    THEN [entry EXCEPT !.useful_count = @ + 1]
                    ELSE [entry EXCEPT !.harmful_count = @ + 1])

\* the contents of entries: equal contents are duplicates, different ones
\* are unlike each other
Contents == 0..(MaxEntries - 1)

\* the entries the Curator makes of a failure or a success at a time
CuratedEntries(timestamp) ==
    {[type |-> "error_pattern", useful_count |-> 0, harmful_count |-> 1,
      score |-> -1, content |-> c, last_used |-> timestamp] : c \in Contents}
    \cup
    {[type |-> "strategy", useful_count |-> 1, harmful_count |-> 0,
      score |-> 1, content |-> c, last_used |-> timestamp] : c \in Contents}

\* the tool_usage entry _curate_quality_issue_insights makes
QualityIssueEntry(content, timestamp) ==
    [type |-> "tool_usage", useful_count |-> 0, harmful_count |-> 1,
     score |-> -1, content |-> content, last_used |-> timestamp]

\* ACECurator.calculate_similarity, in percent: SequenceMatcher.ratio() is 1
\* for equal strings
calculate_similarity(text1, text2) == IF text1 = text2 THEN 100 ELSE 0

\* ACECurator.merge_entries
merge_entries(new_entries, existing_entries) == existing_entries \o new_entries

\* ACECurator.deduplicate_entries: an entry is kept unless its content is
\* more than 85 % similar to one kept before it
RECURSIVE DedupFrom(_, _, _)
DedupFrom(entries, i, unique_entries) ==
    IF i > Len(entries) THEN unique_entries
    ELSE LET is_duplicate ==
               \E k \in DOMAIN unique_entries :
                   calculate_similarity(entries[i].content,
                                        unique_entries[k].content) > 85
         IN DedupFrom(entries, i + 1,
                      IF is_duplicate THEN unique_entries
                      ELSE Append(unique_entries, entries[i]))
deduplicate_entries(entries) == DedupFrom(entries, 1, <<>>)

\* list.sort(key=score, reverse=True): stable, highest score first
RECURSIVE SortByScore(_)
InsertByScore(sorted, entry) ==
    LET before == {k \in DOMAIN sorted : sorted[k].score >= entry.score}
        n == Cardinality(before)
    IN SubSeq(sorted, 1, n) \o <<entry>> \o SubSeq(sorted, n + 1, Len(sorted))
SortByScore(entries) ==
    IF entries = <<>> THEN <<>>
    ELSE InsertByScore(SortByScore(SubSeq(entries, 1, Len(entries) - 1)),
                       entries[Len(entries)])

\* the cap of ACECurator.update_context
EntryCap == 100

\* ACECurator.update_context: merge, deduplicate, and only when more than
\* 100 entries remain sort by score and keep the first 100; what it saves
update_context(existing_entries, new_entries) ==
    LET merged_entries == merge_entries(new_entries, existing_entries)
        deduplicated_entries == deduplicate_entries(merged_entries)
    IN IF Len(deduplicated_entries) > EntryCap
       THEN SubSeq(SortByScore(deduplicated_entries), 1, EntryCap)
       ELSE deduplicated_entries

\* the keys and values handed to update_entry
UpdateKeys == {"content", "score", "useful_count", "harmful_count", "metadata"}
UpdateValues == 0..1

\* the loop body of ContextManager.update_entry for one key: an attribute of
\* the entry is set (useful_count and harmful_count are read-only
\* properties, so setattr raises), otherwise a key of its metadata
update_entry(entry, key, value) ==
    IF key = "content"
    THEN [ok |-> TRUE, entry |-> [entry EXCEPT !.content = value]]
    ELSE IF key = "metadata"
    THEN [ok |-> TRUE,
          entry |-> [entry EXCEPT !.useful_count = value.useful_count,
                                  !.harmful_count = value.harmful_count,
                                  !.score = value.score]]
    ELSE IF key \in {"useful_count", "harmful_count"}
    THEN [ok |-> FALSE, entry |-> entry]
    ELSE [ok |-> TRUE, entry |-> [entry EXCEPT !.score = value]]

\* ContextManager.retrieve_relevant_entries_async: the top_k entries of the
\* task class by relevance (the embedding's order is not modelled)
TopK == 5
retrieve_relevant_entries_async(entries) ==
    SubSeq(entries, 1, IF Len(entries) < TopK THEN Len(entries) ELSE TopK)

\* ContextManager.load_memory_as_context: ContextEntry(task_type=..., ...)
\* raises TypeError for every record, which is logged and skipped
load_memory_as_context == <<>>

\* ACEPlanGenerator._retrieve_relevant_context: memory entries then auto
\* entries, reduced to one per (entry.tool_name, entry.task_type), at most
\* five; an entry without these attributes raises AttributeError, which the
\* except clause answers with the empty list
_retrieve_relevant_context(entries) ==
    LET auto_entries == retrieve_relevant_entries_async(entries)
        all_entries == load_memory_as_context \o auto_entries
    IN IF all_entries = <<>>
       THEN [called |-> TRUE, entries |-> <<>>, warning |-> ""]
       ELSE IF \E i \in DOMAIN all_entries :
                   {"tool_name", "task_type"} \ DOMAIN all_entries[i] # {}
       THEN [called |-> TRUE, entries |-> <<>>, warning |-> "AttributeError"]
       ELSE [called |-> TRUE,
             entries |-> SubSeq(all_entries, 1,
                            IF Len(all_entries) < 5 THEN Len(all_entries) ELSE 5),
             warning |-> ""]

NotRetrieved == [called |-> FALSE, entries |-> <<>>, warning |-> ""]

ContextIdle ==
    /\ ctx_entries = <<>>
    /\ ctx_error = "off"
    /\ ctx_clock = 0
    /\ ctx_retrieved = NotRetrieved

ContextInit ==
    /\ ctx_entries = <<>>
    /\ ctx_error = ""
    /\ ctx_clock = 1
    /\ ctx_retrieved = NotRetrieved

\* Curator.update_context with the entry made of a failure or a success
CuratorWrite ==
    /\ ctx_clock < MaxCuratorCalls
    /\ \E entry \in CuratedEntries(ctx_clock + 1) :
          ctx_entries' = update_context(ctx_entries, <<entry>>)
    /\ ctx_clock' = ctx_clock + 1
    /\ ctx_error' = ""
    /\ UNCHANGED ctx_retrieved

\* _curate_quality_issue_insights, then update_context with what it made:
\* a stored tool_usage entry more than 80 % similar to the new content gets
\* update_last_used and nothing is made; otherwise a new tool_usage entry
CurateQualityIssue ==
    /\ ctx_clock < MaxCuratorCalls
    /\ \E content \in Contents :
          LET similar == {i \in DOMAIN ctx_entries :
                            /\ ctx_entries[i].type = "tool_usage"
                            /\ calculate_similarity(content,
                                    ctx_entries[i].content) > 80}
              first == CHOOSE i \in similar : \A k \in similar : i <= k
          IN ctx_entries' =
                IF similar # {}
                THEN update_context(
                        [ctx_entries EXCEPT ![first].last_used = ctx_clock + 1],
                        <<>>)
                ELSE update_context(ctx_entries,
                        <<QualityIssueEntry(content, ctx_clock + 1)>>)
    /\ ctx_clock' = ctx_clock + 1
    /\ ctx_error' = ""
    /\ UNCHANGED ctx_retrieved

\* ACEPlanGenerator.generate, step 2: the retrieval of the relevant entries
RetrieveRelevantContext ==
    /\ ctx_retrieved' = _retrieve_relevant_context(ctx_entries)
    /\ ctx_retrieved' # ctx_retrieved
    /\ UNCHANGED <<ctx_entries, ctx_error, ctx_clock>>

\* PlanScope.mark_entry_useful / mark_entry_harmful: update_score on the
\* entry, then update_entry with its metadata
MarkEntry ==
    \E i \in DOMAIN ctx_entries, is_useful \in BOOLEAN :
        /\ ctx_entries[i].useful_count + ctx_entries[i].harmful_count
              <= MaxFeedback
        /\ LET marked == update_score(ctx_entries[i], is_useful)
               updated == update_entry(ctx_entries[i], "metadata", marked)
           IN ctx_entries' = [ctx_entries EXCEPT ![i] = updated.entry]
        /\ ctx_error' = ""
        /\ UNCHANGED <<ctx_clock, ctx_retrieved>>

\* ContextManager.update_entry with one key that is not the whole metadata
UpdateEntry ==
    \E i \in DOMAIN ctx_entries, key \in UpdateKeys \ {"metadata"},
       value \in UpdateValues :
        LET updated == update_entry(ctx_entries[i], key, value)
        IN /\ ctx_entries' = [ctx_entries EXCEPT ![i] = updated.entry]
           /\ ctx_error' = IF updated.ok THEN "" ELSE "AttributeError"
           /\ UNCHANGED <<ctx_clock, ctx_retrieved>>

ContextNext ==
    \/ CuratorWrite /\ UNCHANGED notContext
    \/ CurateQualityIssue /\ UNCHANGED notContext
    \/ RetrieveRelevantContext /\ UNCHANGED notContext
    \/ MarkEntry /\ UNCHANGED notContext
    \/ UpdateEntry /\ UNCHANGED notContext

(***************************************************************************)
(* SpecReuse: PlanScope.generate_plan and the flow_id of what it returns.  *)
(***************************************************************************)
\* the characters of a task description: letters of both cases, the colon
\* and the backslash of a Windows path, white space
Letters == {"a", "A", "b"}
Backslash == "\\"

\* str.strip(): white space removed at both ends
RECURSIVE strip(_)
strip(text) ==
    IF text = <<>> THEN <<>>
    ELSE IF Head(text) = " " THEN strip(Tail(text))
    ELSE IF text[Len(text)] = " " THEN strip(SubSeq(text, 1, Len(text) - 1))
    ELSE text

\* re.sub(r'\s+', ' ', text): every run of white space becomes one space
RECURSIVE CollapseFrom(_, _)
CollapseFrom(text, i) ==
    IF i > Len(text) THEN <<>>
    ELSE IF text[i] = " " /\ i > 1 /\ text[i - 1] = " "
    THEN CollapseFrom(text, i + 1)
    ELSE <<text[i]>> \o CollapseFrom(text, i + 1)

\* where r'[A-Za-z]:\\[^\\]+\\' matches at position i: the position of
\* the closing backslash, or 0 when there is no match at i
PathEnd(text, i) ==
    IF /\ i + 4 <= Len(text)
       /\ text[i] \in Letters
       /\ text[i + 1] = ":"
       /\ text[i + 2] = Backslash
       /\ text[i + 3] # Backslash
       /\ \E j \in (i + 4)..Len(text) : text[j] = Backslash
    THEN CHOOSE j \in (i + 4)..Len(text) :
            /\ text[j] = Backslash
            /\ \A k \in (i + 4)..(j - 1) : text[k] # Backslash
    ELSE 0

\* re.sub(r'[A-Za-z]:\\[^\\]+\\', '', text): the matches found from left
\* to right, none overlapping, are removed
RECURSIVE RemovePathsFrom(_, _)
RemovePathsFrom(text, i) ==
    IF i > Len(text) THEN <<>>
    ELSE IF PathEnd(text, i) # 0
    THEN RemovePathsFrom(text, PathEnd(text, i) + 1)
    ELSE <<text[i]>> \o RemovePathsFrom(text, i + 1)

\* str.lower()
lower(text) ==
    [i \in DOMAIN text |->
        IF text[i] = "A" THEN "a" ELSE text[i]]

\* StorageManager.normalize_task_description: strip and collapse white
\* space, then remove the drive-and-directory parts, then lower case
normalize_task_description(text) ==
    lower(RemovePathsFrom(CollapseFrom(strip(text), 1), 1))

\* the requests: two that differ only in case, and another
Prompts == {<<"a">>, <<"A">>, <<"b">>}

\* "flow_{timestamp}_{md5(prompt)[:8]}": the second and the request's digest
FlowId(timestamp, prompt) == <<timestamp, prompt>>
FlowIds == (1..MaxTime) \X Prompts

NoTask == [exists |-> FALSE, task_description |-> <<>>, success |-> FALSE]
NoPlan == [flow_id |-> <<0, <<>>>>, reused_from |-> <<0, <<>>>>, path |-> "none",
           existing |-> {}, source_success |-> FALSE]

\* TaskMatcher.find_exact_match_plan: the flow_ids of the successful tasks
\* whose normalised description equals the normalised request
find_exact_match_plan(prompt) ==
    {f \in FlowIds :
        /\ tasks[f].exists
        /\ tasks[f].success
        /\ normalize_task_description(tasks[f].task_description)
              = normalize_task_description(prompt)}

\* TaskMatcher.save_task_mapping through _save_task_mapping: success None is
\* stored as False
save_task_mapping(flow_id, prompt) ==
    [tasks EXCEPT ![flow_id] = [exists |-> TRUE, task_description |-> prompt,
                                success |-> FALSE]]

ReuseIdle ==
    /\ now = 0
    /\ tasks = <<>>
    /\ generated = NoPlan
    /\ tool_pool = {}
    /\ tool_registry = {}

\* the tools there are to add to the pool, and the tools a stored plan names
PoolTools == {"a"}
PlanTools == {"a"}

ReuseInit ==
    /\ now = 1
    /\ tasks = [f \in FlowIds |-> NoTask]
    /\ generated = NoPlan
    /\ tool_pool = {}
    /\ tool_registry = {}

\* PlanScope.__init__ in a new process over the work directory: an empty
\* pool, the new process's empty registry; the stored tasks remain
StartProcess ==
    /\ tool_pool # {} \/ tool_registry # {} \/ generated # NoPlan
    /\ tool_pool' = {}
    /\ tool_registry' = {}
    /\ generated' = NoPlan
    /\ UNCHANGED <<now, tasks>>

\* PlanScope.add_tool_to_pool
add_tool_to_pool ==
    \E tool \in PoolTools \ tool_pool :
        /\ tool_pool' = tool_pool \cup {tool}
        /\ UNCHANGED <<now, tasks, generated, tool_registry>>

\* generate_plan's test after the exact match: the pool is empty and no tool
\* is registered
NoToolsAtAll == tool_pool = {} /\ tool_registry = {}

\* a second passes
Tick ==
    /\ now < MaxTime
    /\ now' = now + 1
    /\ UNCHANGED <<tasks, generated, tool_pool, tool_registry>>

\* generate_plan finds an exact match: the stored plan is returned as it is,
\* flow_id included; no task record is written
GenerateExactMatch ==
    \E prompt \in Prompts :
        \E source \in find_exact_match_plan(prompt) :
            /\ generated' = [flow_id |-> source, reused_from |-> source,
                             path |-> "exact",
                             existing |-> {f \in FlowIds : tasks[f].exists},
                             source_success |-> tasks[source].success]
            /\ tool_registry' = tool_registry \cup (PlanTools \cap tool_pool)
            /\ UNCHANGED <<now, tasks, tool_pool>>

\* generate_plan without an exact match, with an empty pool and an empty
\* registry: PlanScopeError
GenerateWithoutTools ==
    \E prompt \in Prompts :
        /\ find_exact_match_plan(prompt) = {}
        /\ NoToolsAtAll
        /\ generated' = [NoPlan EXCEPT !.path = "PlanScopeError"]
        /\ generated' # generated
        /\ UNCHANGED <<now, tasks, tool_pool, tool_registry>>

\* ACEPlanGenerator._try_reuse_plan over the tasks the vector search found
\* similar: a successful one when there is one, otherwise a failed one
_try_reuse_plan(similar_tasks) ==
    LET successful == {f \in similar_tasks : tasks[f].success}
    IN IF successful # {} THEN successful ELSE similar_tasks

\* generate_plan without an exact match, ACEPlanGenerator.generate reusing
\* the plan of a similar task: a new flow_id, a task record under it
GenerateSimilar ==
    \E prompt \in Prompts,
       similar_tasks \in SUBSET {f \in FlowIds : tasks[f].exists} :
      \E source \in _try_reuse_plan(similar_tasks) :
        /\ find_exact_match_plan(prompt) = {}
        /\ ~NoToolsAtAll
        /\ tool_registry' = tool_registry \cup tool_pool
        /\ generated' = [flow_id |-> FlowId(now, prompt), reused_from |-> source,
                         path |-> "similar",
                         existing |-> {f \in FlowIds : tasks[f].exists},
                         source_success |-> tasks[source].success]
        /\ tasks' = save_task_mapping(FlowId(now, prompt), prompt)
        /\ UNCHANGED <<now, tool_pool>>

\* generate_plan without an exact match or a similar task: the model's plan
\* gets its flow_id from _add_metadata, and a task record
GenerateFresh ==
    \E prompt \in Prompts :
        /\ find_exact_match_plan(prompt) = {}
        /\ ~NoToolsAtAll
        /\ tool_registry' = tool_registry \cup tool_pool
        /\ generated' = [flow_id |-> FlowId(now, prompt),
                         reused_from |-> <<0, <<>>>>, path |-> "fresh",
                         existing |-> {f \in FlowIds : tasks[f].exists},
                         source_success |-> FALSE]
        /\ tasks' = save_task_mapping(FlowId(now, prompt), prompt)
        /\ UNCHANGED <<now, tool_pool>>

\* execute_plan ends: update_task_success on the record of the plan's flow_id
UpdateTaskSuccess ==
    \E success \in BOOLEAN :
        /\ generated.path \notin {"none", "PlanScopeError"}
        /\ tasks[generated.flow_id].exists
        /\ tasks' = [tasks EXCEPT ![generated.flow_id].success = success]
        /\ UNCHANGED <<now, generated, tool_pool, tool_registry>>

ReuseNext ==
    \/ Tick /\ UNCHANGED notReuse
    \/ StartProcess /\ UNCHANGED notReuse
    \/ add_tool_to_pool /\ UNCHANGED notReuse
    \/ GenerateWithoutTools /\ UNCHANGED notReuse
    \/ GenerateExactMatch /\ UNCHANGED notReuse
    \/ GenerateSimilar /\ UNCHANGED notReuse
    \/ GenerateFresh /\ UNCHANGED notReuse
    \/ UpdateTaskSuccess /\ UNCHANGED notReuse

(***************************************************************************)
(* SpecNormalize: normalize_task_description applied to a text and then to *)
(* its own result.                                                         *)
(***************************************************************************)
TextChars == {"A", ":", Backslash, " "}

NormalizeIdle == n_text = <<>> /\ n_results = <<"off">>

RECURSIVE TextsOfLen(_)
TextsOfLen(n) ==
    IF n = 0 THEN {<<>>}
    ELSE {Append(t, c) : t \in TextsOfLen(n - 1), c \in TextChars}

NormalizeInit ==
    /\ n_text \in UNION {TextsOfLen(n) : n \in 0..MaxTextLen}
    /\ n_results = <<>>

\* normalize_task_description(text)
Normalize ==
    /\ n_results = <<>>
    /\ n_results' = <<normalize_task_description(n_text)>>
    /\ UNCHANGED n_text

\* normalize_task_description of what the first call returned
NormalizeAgain ==
    /\ Len(n_results) = 1
    /\ n_results' = Append(n_results, normalize_task_description(n_results[1]))
    /\ UNCHANGED n_text

NormalizeNext ==
    \/ Normalize /\ UNCHANGED notNormalize
    \/ NormalizeAgain /\ UNCHANGED notNormalize

(***************************************************************************)
(* SpecConcurrent: two execute_plan calls of one PlanScope, each in a      *)
(* worker thread of the event loop's executor, interleaved call by call.   *)
(* Both record into the one ACEGenerator.  A step of execution e is named  *)
(* <<e, k>>; the plan of execution e has flow_id e.                        *)
(***************************************************************************)
Executions == {1, 2}

NoCurrentTrace == [flow_id |-> 0] @@ NoTrace

ConcurrentIdle ==
    /\ t_pc = <<>>
    /\ t_next = <<>>
    /\ t_current = NoCurrentTrace
    /\ t_saved = <<>>

ConcurrentInit ==
    /\ t_pc = [e \in Executions |-> "idle"]
    /\ t_next = [e \in Executions |-> 1]
    /\ t_current = NoCurrentTrace
    /\ t_saved = <<>>

\* the executed_steps list of execution e
ExecutedBy(e) == [k \in 1..(t_next[e] - 1) |-> <<e, k>>]

\* PlanExecutor.execute up to its loop: start_trace replaces current_trace
ConcurrentStart(e) ==
    /\ t_pc[e] = "idle"
    /\ t_pc' = [t_pc EXCEPT ![e] = "running"]
    /\ t_current' = [flow_id |-> e] @@ start_trace
    /\ UNCHANGED <<t_next, t_saved>>

\* one round of the executor's loop: the step is recorded in current_trace;
\* a raising tool is recorded with its error, then record_failure
ConcurrentStep(e) ==
    /\ t_pc[e] = "running"
    /\ t_next[e] <= ConcurrentSteps
    /\ \E tool_raises \in BOOLEAN :
          IF tool_raises
          THEN /\ t_current' =
                     set_failure(
                        record_step_execution(t_current, <<e, t_next[e]>>,
                                              "ToolError"),
                        <<e, t_next[e]>>, "ToolError", ExecutedBy(e))
               /\ t_pc' = [t_pc EXCEPT ![e] = "raised"]
               /\ UNCHANGED t_next
          ELSE /\ t_current' =
                     record_step_execution(t_current, <<e, t_next[e]>>, "")
               /\ t_next' = [t_next EXCEPT ![e] = @ + 1]
               /\ UNCHANGED t_pc
    /\ UNCHANGED t_saved

\* the loop has ended: record_success on current_trace, execute returns
ConcurrentFinish(e) ==
    /\ t_pc[e] = "running"
    /\ t_next[e] > ConcurrentSteps
    /\ t_current' = set_success(t_current, ExecutedBy(e))
    /\ t_pc' = [t_pc EXCEPT ![e] = "returned"]
    /\ UNCHANGED <<t_next, t_saved>>

\* execute_plan's except clause: _trigger_ace_reflection finalises whatever
\* current_trace is
ConcurrentReflect(e) ==
    /\ t_pc[e] = "raised"
    /\ t_pc' = [t_pc EXCEPT ![e] = "reflected"]
    /\ IF t_current.active
       THEN /\ t_saved' = Append(t_saved, t_current)
            /\ t_current' = NoCurrentTrace
       ELSE UNCHANGED <<t_current, t_saved>>
    /\ UNCHANGED t_next

ConcurrentNext ==
    \/ (\E e \in Executions : ConcurrentStart(e)) /\ UNCHANGED notConcurrent
    \/ (\E e \in Executions : ConcurrentStep(e)) /\ UNCHANGED notConcurrent
    \/ (\E e \in Executions : ConcurrentFinish(e)) /\ UNCHANGED notConcurrent
    \/ (\E e \in Executions : ConcurrentReflect(e)) /\ UNCHANGED notConcurrent

(***************************************************************************)
(* SpecCache: LLMAnalyzer.analyze_with_cache with use_embedding_match in   *)
(* two threads.  embedding_lock is the one lock of the class; k_access     *)
(* keeps of each access to a cache whether its thread held the cache's     *)
(* lock (memory_cache has none).                                           *)
(***************************************************************************)
Threads == {1, 2}
CacheKeys == {"p", "q"}
NoAccess == [thread |-> 0, cache |-> "none", kind |-> "none", locked |-> TRUE]

CacheIdle ==
    /\ k_pc = <<>>
    /\ k_key = <<>>
    /\ embedding_lock = 0
    /\ memory_cache = {}
    /\ embedding_cache = {}
    /\ k_access = NoAccess

CacheInit ==
    /\ k_pc = [t \in Threads |-> "idle"]
    /\ k_key = [t \in Threads |-> "p"]
    /\ embedding_lock = 0
    /\ memory_cache = {}
    /\ embedding_cache = {}
    /\ k_access = NoAccess

\* analyze_with_cache, step 1: `cache_key in self.memory_cache`, outside any
\* lock; a hit returns, a miss goes on to _find_similar_cached_result
analyze_with_cache(t) ==
    /\ k_pc[t] = "idle"
    /\ \E cache_key \in CacheKeys :
          /\ k_key' = [k_key EXCEPT ![t] = cache_key]
          /\ k_pc' = [k_pc EXCEPT ![t] =
                         IF cache_key \in memory_cache THEN "returned"
                         ELSE "get_embedding"]
    /\ k_access' = [thread |-> t, cache |-> "memory_cache", kind |-> "read",
                    locked |-> FALSE]
    /\ UNCHANGED <<embedding_lock, memory_cache, embedding_cache>>

\* `with self.embedding_lock:` entered, before the look-up and before the
\* store of _get_embedding
AcquireEmbeddingLock(t) ==
    /\ k_pc[t] \in {"get_embedding", "api"}
    /\ embedding_lock = 0
    /\ embedding_lock' = t
    /\ k_pc' = [k_pc EXCEPT ![t] =
                   IF k_pc[t] = "get_embedding" THEN "lookup" ELSE "store"]
    /\ UNCHANGED <<k_key, memory_cache, embedding_cache, k_access>>

\* _get_embedding: the look-up inside the lock, which is then released
LookupEmbedding(t) ==
    /\ k_pc[t] = "lookup"
    /\ k_access' = [thread |-> t, cache |-> "embedding_cache", kind |-> "read",
                    locked |-> embedding_lock = t]
    /\ embedding_lock' = 0
    /\ k_pc' = [k_pc EXCEPT ![t] =
                   IF k_key[t] \in embedding_cache THEN "scan" ELSE "api"]
    /\ UNCHANGED <<k_key, memory_cache, embedding_cache>>

\* _get_embedding: the store inside the lock, which is then released
StoreEmbedding(t) ==
    /\ k_pc[t] = "store"
    /\ embedding_cache' = embedding_cache \cup {k_key[t]}
    /\ k_access' = [thread |-> t, cache |-> "embedding_cache", kind |-> "write",
                    locked |-> embedding_lock = t]
    /\ embedding_lock' = 0
    /\ k_pc' = [k_pc EXCEPT ![t] = "scan"]
    /\ UNCHANGED <<k_key, memory_cache>>

\* _find_similar_cached_result: `for ... in self.embedding_cache.items()`,
\* outside the lock
ScanEmbeddings(t) ==
    /\ k_pc[t] = "scan"
    /\ k_access' = [thread |-> t, cache |-> "embedding_cache", kind |-> "read",
                    locked |-> embedding_lock = t]
    /\ k_pc' = [k_pc EXCEPT ![t] = "answer"]
    /\ UNCHANGED <<k_key, embedding_lock, memory_cache, embedding_cache>>

\* analyze_with_cache: `self.memory_cache[cache_key] = result`, outside any
\* lock, and the return
StoreAnswer(t) ==
    /\ k_pc[t] = "answer"
    /\ memory_cache' = memory_cache \cup {k_key[t]}
    /\ k_access' = [thread |-> t, cache |-> "memory_cache", kind |-> "write",
                    locked |-> FALSE]
    /\ k_pc' = [k_pc EXCEPT ![t] = "returned"]
    /\ UNCHANGED <<k_key, embedding_lock, embedding_cache>>

\* the next call of the thread
NextCall(t) ==
    /\ k_pc[t] = "returned"
    /\ k_pc' = [k_pc EXCEPT ![t] = "idle"]
    /\ UNCHANGED <<k_key, embedding_lock, memory_cache, embedding_cache, k_access>>

CacheNext ==
    \/ (\E t \in Threads : analyze_with_cache(t)) /\ UNCHANGED notCache
    \/ (\E t \in Threads : AcquireEmbeddingLock(t)) /\ UNCHANGED notCache
    \/ (\E t \in Threads : LookupEmbedding(t)) /\ UNCHANGED notCache
    \/ (\E t \in Threads : StoreEmbedding(t)) /\ UNCHANGED notCache
    \/ (\E t \in Threads : ScanEmbeddings(t)) /\ UNCHANGED notCache
    \/ (\E t \in Threads : StoreAnswer(t)) /\ UNCHANGED notCache
    \/ (\E t \in Threads : NextCall(t)) /\ UNCHANGED notCache

ExecNext ==
    \/ ExecutePlan /\ UNCHANGED notExec
    \/ ExecuteStep /\ UNCHANGED notExec
    \/ ExecuteFinish /\ UNCHANGED notExec

ExecCancelNext ==
    \/ ExecNext
    \/ CancelRequest /\ UNCHANGED notExec

ParseNext ==
    \/ Parse /\ UNCHANGED notParse
    \/ ParseAgain /\ UNCHANGED notParse

ResolveNext == Resolve /\ UNCHANGED notResolve

StoreNext ==
    \/ Generate /\ UNCHANGED notStore
    \/ GenerateReused /\ UNCHANGED notStore
    \/ DeleteStepAndReconstruct /\ UNCHANGED notStore

SessionNext ==
    \/ RequestStart /\ UNCHANGED notSession
    \/ GenerationFails /\ UNCHANGED notSession
    \/ GenerationSucceeds /\ UNCHANGED notSession
    \/ ExecutorPublishes /\ UNCHANGED notSession
    \/ ExecutionFails /\ UNCHANGED notSession
    \/ ExecutionSucceeds /\ UNCHANGED notSession
    \/ Subscribe /\ UNCHANGED notSession
    \/ Deliver /\ UNCHANGED notSession
    \/ WaitTimesOut /\ UNCHANGED notSession

InitParse == ParseInit /\ ExecIdle /\ ResolveIdle /\ StoreIdle /\ SessionIdle /\ ContextIdle /\ ReuseIdle /\ NormalizeIdle /\ ConcurrentIdle /\ CacheIdle
InitResolve == ResolveInit /\ ParseIdle /\ ExecIdle /\ StoreIdle /\ SessionIdle /\ ContextIdle /\ ReuseIdle /\ NormalizeIdle /\ ConcurrentIdle /\ CacheIdle
InitStore == StoreInit /\ ParseIdle /\ ExecIdle /\ ResolveIdle /\ SessionIdle /\ ContextIdle /\ ReuseIdle /\ NormalizeIdle /\ ConcurrentIdle /\ CacheIdle
InitSession == SessionInit /\ ParseIdle /\ ExecIdle /\ ResolveIdle /\ StoreIdle /\ ContextIdle /\ ReuseIdle /\ NormalizeIdle /\ ConcurrentIdle /\ CacheIdle
\* plans that differ in their dependency graph and their tools
InitExec ==
    ExecInit(ExecPlans(ToolNames, {LiteralInput}), {ToolResult})
    /\ ParseIdle /\ ResolveIdle
    /\ StoreIdle /\ SessionIdle /\ ContextIdle /\ ReuseIdle /\ NormalizeIdle /\ ConcurrentIdle /\ CacheIdle
\* plans of registered tools that differ in their graph and their references
InitExecRefs ==
    ExecInit(ExecPlans(ProvidedTools, ExecInputs), {ToolResult})
    /\ ParseIdle /\ ResolveIdle
    /\ StoreIdle /\ SessionIdle /\ ContextIdle /\ ReuseIdle /\ NormalizeIdle /\ ConcurrentIdle /\ CacheIdle

\* plans of registered tools whose results take every shape
InitExecResults ==
    ExecInit(ExecPlans(ProvidedTools, {LiteralInput}), ToolResults)
    /\ ParseIdle /\ ResolveIdle /\ StoreIdle /\ SessionIdle /\ ContextIdle /\ ReuseIdle /\ NormalizeIdle /\ ConcurrentIdle /\ CacheIdle

InitContext ==
    ContextInit /\ ParseIdle /\ ExecIdle /\ ResolveIdle /\ StoreIdle /\ SessionIdle
    /\ ReuseIdle /\ NormalizeIdle /\ ConcurrentIdle /\ CacheIdle
InitReuse ==
    ReuseInit /\ ParseIdle /\ ExecIdle /\ ResolveIdle /\ StoreIdle /\ SessionIdle
    /\ ContextIdle /\ NormalizeIdle /\ ConcurrentIdle /\ CacheIdle
InitNormalize ==
    NormalizeInit /\ ParseIdle /\ ExecIdle /\ ResolveIdle /\ StoreIdle
    /\ SessionIdle /\ ContextIdle /\ ReuseIdle /\ ConcurrentIdle /\ CacheIdle
InitConcurrent ==
    ConcurrentInit /\ ParseIdle /\ ExecIdle /\ ResolveIdle /\ StoreIdle
    /\ SessionIdle /\ ContextIdle /\ ReuseIdle /\ NormalizeIdle /\ CacheIdle
InitCache ==
    CacheInit /\ ParseIdle /\ ExecIdle /\ ResolveIdle /\ StoreIdle
    /\ SessionIdle /\ ContextIdle /\ ReuseIdle /\ NormalizeIdle
    /\ ConcurrentIdle

SpecParse == InitParse /\ [][ParseNext]_vars
SpecExec == InitExec /\ [][ExecNext]_vars
SpecExecRefs == InitExecRefs /\ [][ExecNext]_vars
SpecExecCancel == InitExec /\ [][ExecCancelNext]_vars
SpecExecResults == InitExecResults /\ [][ExecNext]_vars
SpecContext == InitContext /\ [][ContextNext]_vars
SpecReuse == InitReuse /\ [][ReuseNext]_vars
SpecNormalize == InitNormalize /\ [][NormalizeNext]_vars
SpecConcurrent == InitConcurrent /\ [][ConcurrentNext]_vars
SpecCache == InitCache /\ [][CacheNext]_vars
SpecResolve == InitResolve /\ [][ResolveNext]_vars
SpecStore == InitStore /\ [][StoreNext]_vars
SpecSession == InitSession /\ [][SessionNext]_vars

\* The event loop resumes a generator whose queue.get() can return or whose
\* wait_for has expired, and execute_agent runs to its return; whether and
\* when a client opens the progress stream is the client's choice.
RequestStep ==
    \/ RequestStart
    \/ GenerationFails
    \/ GenerationSucceeds
    \/ ExecutorPublishes
    \/ ExecutionFails
    \/ ExecutionSucceeds
SessionFairness ==
    /\ WF_sessionVars(Deliver)
    /\ WF_sessionVars(WaitTimesOut)
    /\ WF_sessionVars(RequestStep)
SpecSessionLive == InitSession /\ [][SessionNext]_vars /\ SessionFairness

(***************************************************************************)
(* Properties of PlanParser.parse (SpecParse).                             *)
(***************************************************************************)
\* C1: for every plan whose dependency lists name existing steps other than
\* the step itself (repeats allowed) and whose graph is acyclic, parse succeeds
\* and returns an order holding every step_id exactly once with every step
\* after all the steps it depends on, and a second parse returns the same order.
C1_AcyclicPlanParses ==
    (p_result # None /\ DepsWellFormed(p_plan) /\ ~HasCycleGraph(p_plan)) =>
        /\ p_result.ok
        /\ IsLinearExtension(p_plan, p_result.execution_order)
        /\ (p_again # None => p_again = p_result)

(***************************************************************************)
(* Properties of execute_plan (SpecExec, SpecExecRefs).                    *)
(***************************************************************************)
\* c is a closed walk along dependency edges: it returns to where it starts
IsCyclePath(steps, c) ==
    /\ Len(c) >= 2
    /\ c[1] = c[Len(c)]
    /\ \A i \in 1..(Len(c) - 1) : DependsOn(steps, c[i], c[i + 1])

StepFailed == pc = "raised" /\ raised.step_id # 0

PositionsOf(kind) == {i \in DOMAIN events : events[i].kind = kind}

MissingTool == \E i \in DOMAIN plan : plan[i].tool \notin ProvidedTools

\* C2: a plan whose dependency graph has a cycle is rejected by the parser
\* with a dependency error naming a cycle path of the plan (1 -> 2 -> 1 for
\* the two-step cycle); no execution order is returned and no step is executed.
C2_CyclicPlanRejected ==
    HasCycleGraph(plan) =>
        LET r == parse(plan) IN
        /\ ~r.ok
        /\ r.cause = "DependencyError"
        /\ IsCyclePath(plan, r.cycle)
        /\ r.execution_order = <<>>
        /\ pc \in {"idle", "raised"}
        /\ execution_order = <<>>
        /\ invoked = <<>>
        /\ executed_steps = <<>>
        /\ PositionsOf("step_start") = {}
        /\ (pc = "raised" /\ ~MissingTool) =>
               /\ raised.cause = "PlanParsingError"
               /\ raised.cycle = r.cycle

C2_Witness ==
    /\ pc = "raised"
    /\ raised.cause = "PlanParsingError"
    /\ raised.cycle = <<1, 2, 1>>

\* C3: when a step fails, the trace holds failure_info for that step,
\* step_error is published for it, no further step is started, and the
\* PlanExecutionError carries the failing step_id and an executed_steps list
\* equal to exactly the steps completed before the failure.
C3_StepFailureStops ==
    StepFailed =>
        LET failed == raised.step_id
            before == SubSeq(execution_order, 1, next_index - 1)
            trace == saved_traces[Len(saved_traces)]
        IN
        /\ raised.kind = "PlanExecutionError"
        /\ failed = execution_order[next_index]
        /\ raised.executed_steps = before
        /\ executed_steps = before
        /\ Len(saved_traces) = 1
        /\ ~trace.success
        /\ trace.failure_info.step_id = failed
        /\ trace.failure_info.error_type = raised.cause
        /\ trace.executed_steps = before
        /\ \A i \in DOMAIN invoked : invoked[i] = execution_order[i]
        /\ Len(invoked) <= next_index
        /\ has_session =>
              /\ events[Len(events)] = [kind |-> "step_error", step_id |-> failed]
              /\ PositionsOf("step_error") = {Len(events)}
              /\ [i \in 1..next_index |->
                     events[CHOOSE x \in PositionsOf("step_start") :
                               Cardinality({y \in PositionsOf("step_start") : y <= x}) = i
                           ].step_id]
                 = SubSeq(execution_order, 1, next_index)
              /\ Cardinality(PositionsOf("step_start")) = next_index
              /\ Cardinality(PositionsOf("step_done")) = next_index - 1

C3_Witness ==
    /\ StepFailed
    /\ has_session
    /\ raised.step_id = 2
    /\ raised.executed_steps = <<1>>
    /\ invoked = <<1, 2>>

\* C4: while an accepted plan executes, for all step ids i < j the
\* step_start event of i is published before the step_start event of j.
\* Stated for the plans whose dependencies all name a smaller step_id, where
\* ascending order is itself a topological order.
C4_StepStartAscending ==
    (\A i \in DOMAIN plan :
        \A d \in Range(plan[i].dependencies) : d < plan[i].step_id) =>
    \A x, y \in PositionsOf("step_start") :
        x < y => events[x].step_id < events[y].step_id

C7_OnlyBackwardReferences ==
    \A i \in DOMAIN invoked :
        \A k \in RefsOf(_build_step_map(plan)[invoked[i]].tool_input) :
            0 < k /\ k < invoked[i]

(***************************************************************************)
(* Properties of VariableResolver.resolve (SpecResolve).                   *)
(***************************************************************************)
RECURSIVE Target(_, _, _)
\* the value a path names in a result, NoValue when a field on it is absent,
\* the value reached is not of the kind the path asks for, or an index is
\* outside 0..len-1
Target(current, path, i) ==
    IF i > Len(path) THEN current
    ELSE IF current.t # "dict" \/ path[i].name \notin DOMAIN current.v THEN NoValue
    ELSE LET named == current.v[path[i].name] IN
         IF ~path[i].indexed THEN Target(named, path, i + 1)
         ELSE IF named.t # "list" THEN NoValue
         ELSE IF path[i].index \notin 0..(Len(named.v) - 1) THEN NoValue
         ELSE Target(named.v[path[i].index + 1], path, i + 1)

\* the value a reference names in the context, NoValue when the step has no
\* result there
Referenced(ctx, ref) ==
    IF ref.step \notin DOMAIN ctx THEN NoValue
    ELSE Target(ctx[ref.step], ref.path, 1)

RefsIn(tokens) == {i \in DOMAIN tokens : tokens[i].kind # "lit"}

\* C6: a string that is exactly one double-brace reference {{steps.N.field}}
\* resolves to the referenced value itself, with its type: a list stays a
\* list, a map a map, a scalar that scalar.
C6_LoneReferenceKeepsType ==
    (/\ r_result # None
     /\ Len(r_text) = 1
     /\ r_text[1].kind = "dbl"
     /\ Referenced(r_context, r_text[1]) # NoValue) =>
        /\ r_result.ok
        /\ r_result.value = Referenced(r_context, r_text[1])

\* C8: resolving fails with VariableResolutionError and returns no value
\* whenever a referenced step has no result in the context, a field on the
\* path is absent, or an index is outside 0..len-1.
C8_BadReferenceFails ==
    (/\ r_result # None
     /\ \E i \in RefsIn(r_text) : Referenced(r_context, r_text[i]) = NoValue) =>
        /\ ~r_result.ok
        /\ r_result.error = "VariableResolutionError"
        /\ r_result.value = NoValue

(***************************************************************************)
(* Properties of the plan files (SpecStore).                               *)
(***************************************************************************)
\* the step_ids are exactly 1..N, each once
StepIdsDense(steps) ==
    /\ StepIdsOf(steps) = 1..Len(steps)
    /\ \A i, j \in DOMAIN steps : i # j => steps[i].step_id # steps[j].step_id

\* C9: every plan file written by generation, by reuse or by step deletion and
\* reconstruction has step_ids forming exactly 1..N, without gaps or
\* duplicates, and an acyclic dependency graph.
C9_PersistedPlansDenseAcyclic ==
    \A f \in DOMAIN files :
        files[f].exists =>
            /\ StepIdsDense(files[f].steps)
            /\ ~HasCycleGraph(files[f].steps)

(***************************************************************************)
(* Properties of the progress stream (SpecSession).                        *)
(***************************************************************************)
\* C10: the stream of a session ends with a terminal {"done": true} or
\* {"error": ...} object on every outcome of the request that owns it:
\* plan-generation failure, execution failure and success.  Stated for the
\* requests none of whose phases leaves the subscriber waiting 60 seconds.
C10_StreamEndsWithTerminal ==
    (~may_stall /\ sse_pc = "closed" /\ request_pc = "returned") =>
        stream[Len(stream)] \in {"done", "error"}

(***************************************************************************)
(* Properties of the progress bus under its callers (SpecSessionLive).     *)
(***************************************************************************)
\* execute_agent has called close_session
CloseCalled == outcome \in {"execution_failed", "success"}

\* the subscriber is attached and its generator has not ended
Attached == sse_pc = "waiting"

\* C11: once close_session has been called on a session whose subscriber is
\* attached, the subscriber's stream and the queue together hold every event
\* published before the close, in publish order, followed by the end signal;
\* the subscriber goes on to receive all of them and then {"done": true};
\* and once it has received {"done": true} the session is not registered.
C11_CloseDrainsThenRemoves ==
    /\ [](CloseCalled /\ Attached
            => stream \o session_queue.items = Append(published, EndSignal))
    /\ [](stream # <<>> /\ stream[Len(stream)] = "done"
            => ~session_queue.exists)
    /\ (CloseCalled /\ Attached)
          ~> (/\ sse_pc = "closed"
              /\ stream = Append(published, "done")
              /\ ~session_queue.exists)

\* the subscriber attached before the close and has received the events of a
\* whole execution and the terminal marker
C11_Witness ==
    /\ CloseCalled
    /\ sse_pc = "closed"
    /\ Len(published) >= 5
    /\ stream = Append(published, "done")
    /\ ~session_queue.exists

\* the events among the items of a queue
EventsOf(items) == SelectSeq(items, LAMBDA x : x # EndSignal)

\* C12: publishing to a session id without a session registers the session
\* and buffers the event; while no subscriber has attached the queue holds
\* every published event in publish order; once one has attached, what it has
\* received followed by what is still queued is every published event in
\* publish order, and it goes on to receive all that was buffered when it
\* attached.
C12_BufferedEventsDelivered ==
    /\ [](sse_pc = "idle" /\ published # <<>>
            => /\ session_queue.exists
               /\ EventsOf(session_queue.items) = published)
    /\ [](Attached => EventsOf(stream \o session_queue.items) = published)
    /\ Attached ~> (Len(stream) >= backlog)

\* three events were buffered before the subscriber attached and it has
\* received exactly those
C12_Witness ==
    /\ Attached
    /\ backlog >= 3
    /\ Len(stream) = backlog
    /\ stream = SubSeq(published, 1, backlog)

\* C13: a registered session does not stay registered for ever: with or
\* without a subscriber it is eventually removed.
C13_NoSessionStaysForever == session_queue.exists ~> ~session_queue.exists

\* every step_start of a sequence of events has a plan_ready before it
PlanReadyFirst(seq) ==
    \A i \in 1..Len(seq) :
        seq[i] = "step_start" => \E j \in 1..(i - 1) : seq[j] = "plan_ready"

\* C14: among the events published to one session id, and among those its
\* subscriber has received, every step_start comes after a plan_ready.
C14_PlanReadyBeforeStepStart == PlanReadyFirst(published) /\ PlanReadyFirst(stream)

\* a step_start has been published and the subscriber has received it
C14_Witness ==
    /\ \E i \in 1..Len(published) : published[i] = "step_start"
    /\ \E i \in 1..Len(stream) : stream[i] = "step_start"

(***************************************************************************)
(* Properties of execute_plan's ACE hand-over (SpecExec).                  *)
(***************************************************************************)
\* execute_plan has left the executor's run of the plan: it returned the
\* result, or it raised after the trace of the run had been started
ExecutionEnded ==
    \/ pc = "returned"
    \/ pc = "raised" /\ raised.missing_tools = {}

\* C15: when execute_plan returns or raises after an execution, the trace of
\* that execution has been finalised (saved and cleared as current trace),
\* the first stage of the ACE pipeline, on success as well as on failure.
C15_AcePipelineAfterEveryExecution ==
    ExecutionEnded => saved_traces # <<>> /\ ~current_trace.active

\* the Reflector or the Curator raised while a failed execution was handled
ReflectionFailed == pc = "raised" /\ reflection_log # ""

\* C16: when the reflection itself fails while a failed execution is handled,
\* the exception that reaches the caller is the one of the execution, the
\* reflection's error is logged, and the exception that reaches the caller
\* carries the reflection's error with it.
C16_ReflectionErrorReported ==
    ReflectionFailed
        => /\ raised.kind = "PlanExecutionError"
           /\ raised.cause # "ReflectionError"
           /\ reflection_log = "ReflectionError"
           /\ raised.reflection_error = reflection_log

(***************************************************************************)
(* Cancellation of a running request (SpecExecCancel).                     *)
(***************************************************************************)
\* the positions in execution_order of the steps that were started
StartedPositions == {i \in DOMAIN execution_order : i < next_index \/
                        (pc = "raised" /\ i = next_index)}

\* C17: when the request is cancelled while the step at position k of the
\* execution order runs, no step at a later position is started, and when
\* execute_plan ends without that step having failed by itself, the trace has
\* been finalised as a failure of kind Cancelled.
C17_CancelStopsAfterRunningStep ==
    cancel_at > 0
        => /\ \A i \in StartedPositions : i <= cancel_at
           /\ (pc = "returned" \/ (pc = "raised" /\ next_index # cancel_at))
                => /\ saved_traces # <<>>
                   /\ saved_traces[Len(saved_traces)].failure_info.error_type
                          = "Cancelled"

(***************************************************************************)
(* The shape of tool results (SpecExecResults).                            *)
(***************************************************************************)
\* a tool result the executor is to accept: a mapping, holding "content"
\* when the tool is an llm or vl tool
WellFormedResult(tool, value) ==
    /\ value.t = "dict"
    /\ TOOL_TYPE(tool) \in {"llm", "vl"} => "content" \in DOMAIN value.v

\* C18: no value that is not a mapping, and no mapping without "content"
\* returned by an llm or vl tool, is stored in the context; a step whose tool
\* returned such a value is not among the executed steps.
C18_MalformedResultFailsStep ==
    \A n \in DOMAIN context :
        WellFormedResult(_build_step_map(plan)[n].tool, context[n])

(***************************************************************************)
(* The score of a context entry (SpecContext).                             *)
(***************************************************************************)
\* C19: every entry of the context file has score = useful_count -
\* harmful_count, whatever Curator writes, marks and entry updates preceded.
C19_ScoreIsUsefulMinusHarmful ==
    \A i \in DOMAIN ctx_entries :
        ctx_entries[i].score
            = ctx_entries[i].useful_count - ctx_entries[i].harmful_count

(***************************************************************************)
(* The flow_id of a reused plan (SpecReuse).                               *)
(***************************************************************************)
\* C20: a plan that generate_plan returned by exact match of the normalised
\* request has a flow_id other than the one of the plan it was taken from and
\* other than the one of any plan that existed when it was returned.
C20_ExactReuseGetsNewFlowId ==
    generated.path = "exact"
        => /\ generated.flow_id # generated.reused_from
           /\ generated.flow_id \notin generated.existing

\* C21: a plan that generate_plan returned by reuse, exact match or
\* similarity match, was taken from a task record whose success was true.
C21_ReuseOnlyFromSuccessfulTasks ==
    generated.path \in {"exact", "similar"} => generated.source_success

\* C22: when generate retrieves the relevant context, the entries stored for
\* the task class are among the entries the retrieval returns (up to the five
\* it returns at most).
C22_CuratedEntriesRetrieved ==
    [][RetrieveRelevantContext
         => \A i \in DOMAIN ctx_entries :
               i <= TopK
                 => \E k \in DOMAIN ctx_retrieved'.entries :
                       ctx_retrieved'.entries[k] = ctx_entries[i]]_vars

\* C29: after every update of the Curator the saved entries of the task class
\* are in non-increasing order of score and are at most 100.
C29_SavedEntriesSortedAndCapped ==
    [][(CuratorWrite \/ CurateQualityIssue)
         => /\ Len(ctx_entries') <= EntryCap
            /\ \A i, k \in DOMAIN ctx_entries' :
                  i < k => ctx_entries'[i].score >= ctx_entries'[k].score]_vars

\* C30: when the Curator is given a new entry whose content is a duplicate of
\* a stored entry of the task class, no entry is added and the last_used of
\* the stored entry is advanced.
C30_DuplicateAdvancesLastUsed ==
    [][\A entry \in CuratedEntries(ctx_clock + 1) :
          \A i \in DOMAIN ctx_entries :
             ( /\ CuratorWrite
               /\ ctx_entries' = update_context(ctx_entries, <<entry>>)
               /\ calculate_similarity(entry.content, ctx_entries[i].content) > 85 )
             => /\ Len(ctx_entries') = Len(ctx_entries)
                /\ ctx_entries'[i].last_used > ctx_entries[i].last_used]_vars

\* C23: a call of generate_plan while the pool is empty and no tool is
\* registered ends in an error and returns no plan.
GenerateCall ==
    GenerateExactMatch \/ GenerateSimilar \/ GenerateFresh \/ GenerateWithoutTools
C23_NoPlanWithoutTools ==
    [][(GenerateCall /\ NoToolsAtAll)
          => generated'.path = "PlanScopeError"]_vars

\* C24: normalize_task_description is idempotent: normalising the result of
\* a normalisation returns it unchanged.
C24_NormalizeIdempotent ==
    Len(n_results) = 2 => n_results[2] = n_results[1]

\* C25: in the order the parser returns, a step that was ready when an
\* earlier position was filled (all its dependencies placed before that
\* position) has a larger step_id than the step placed there: ties go to
\* the smallest step_id, whatever the order of the steps array.
C25_TiesAscendingStepId ==
    (p_result # None /\ p_result.ok /\ DepsWellFormed(p_plan)) =>
        LET order == p_result.execution_order
            deps(n) == Range(_build_step_map(p_plan)[n].dependencies)
        IN \A x, y \in DOMAIN order :
              (x < y /\ deps(order[y]) \subseteq {order[k] : k \in 1..(x - 1)})
                 => order[x] < order[y]

\* C26: with two executions running concurrently, a trace holds only the
\* step records, the executed steps and the failure of the execution it was
\* started for (its flow_id), never those of the other execution.
OwnTrace(trace) ==
    /\ \A i \in DOMAIN trace.step_details :
          trace.step_details[i].step_id[1] = trace.flow_id
    /\ \A i \in DOMAIN trace.executed_steps :
          trace.executed_steps[i][1] = trace.flow_id
    /\ trace.failure_info.error_type # "None"
          => trace.failure_info.step_id[1] = trace.flow_id
C26_TraceHoldsOwnExecutionOnly ==
    /\ t_current.active => OwnTrace(t_current)
    /\ \A i \in DOMAIN t_saved : OwnTrace(t_saved[i])

\* C27: every read and every write of the embedding cache and of the LLM
\* answer cache is made by a thread that holds the cache's lock.
C27_CacheAccessUnderLock ==
    k_access.cache # "none" => k_access.locked

\* C28: when every step has succeeded and execute_plan has returned, the
\* trace of the execution has been finalised as successful and saved, it is
\* no longer the current trace, and the task record is marked successful.
C28_SuccessFinalisesTrace ==
    pc = "returned"
        => /\ \E i \in DOMAIN saved_traces :
                 /\ saved_traces[i].success
                 /\ saved_traces[i].executed_steps = executed_steps
           /\ ~current_trace.active
           /\ task_success = "true"

====
